---- MODULE Spec2Model ----
(***************************************************************************)
(* Water-quality index engine of nirmaya-pune: the unit converter          *)
(* (utils/unit_converter.py), the five index functions and the composite   *)
(* index (calculations/*.py) and the six classifiers.                      *)
(*                                                                         *)
(* The functions are pure, so the state is the arguments of a call and its *)
(* outcome.  Python floats are modelled as exact rationals <<n, d>> with   *)
(* d > 0 in lowest terms; <<0, 0>> is NaN.  Python values are tagged       *)
(* records, a dict is a function whose DOMAIN is its key set, and the      *)
(* outcome of a call is either a returned value or a raised exception.     *)
(***************************************************************************)
EXTENDS Integers, Sequences, FiniteSets

VARIABLES
    standards,        \* the `standards` argument: a list of dicts
    data_row,         \* the `data_row` argument of an index function: a dict
    raw_row,          \* the `data_row` argument of convert_row_to_ppb
    input_unit,       \* the `input_unit` argument: a string, as a sequence of characters
    exclude_columns,  \* the `exclude_columns` argument: a set of keys
    hpi,              \* the `hpi` argument of calculate_pig
    hei,              \* the `hei` argument of calculate_pig
    value,            \* the argument of a classifier
    op,               \* the function called last ("" before any call)
    ret,              \* the outcome of that call
    log,              \* the warnings and errors that call logged, in order
    samples,          \* the samples being processed against `standards`, each with its results
    alone             \* the catalog and samples as given, with each sample's results alone

vars ==
    <<standards, data_row, raw_row, input_unit, exclude_columns, hpi, hei, value, op, ret, log,
      samples, alone>>

----------------------------------------------------------------------------
(* Bounds of the model *)

\* longest standards list
MaxStandards == 2

\* most whitespace characters on either side of a unit string
MaxPad == 1

\* most samples processed together
MaxSamples == 2

----------------------------------------------------------------------------
(* Floats as rationals *)

Abs(x) == IF x < 0 THEN -x ELSE x

RECURSIVE GCD(_, _)
GCD(a, b) == IF b = 0 THEN a ELSE GCD(b, a % b)

\* n/d in lowest terms with a positive denominator (d # 0)
Norm(n, d) ==
    LET g == GCD(Abs(n), Abs(d))
        s == IF d < 0 THEN -1 ELSE 1
    IN <<(s * n) \div g, (s * d) \div g>>

NaN == <<0, 0>>
IsNaN(a) == a[2] = 0
F(n) == <<n, 1>>
Zero == F(0)

FAdd(a, b) == IF IsNaN(a) \/ IsNaN(b) THEN NaN ELSE Norm(a[1] * b[2] + b[1] * a[2], a[2] * b[2])
FSub(a, b) == IF IsNaN(a) \/ IsNaN(b) THEN NaN ELSE Norm(a[1] * b[2] - b[1] * a[2], a[2] * b[2])
FMul(a, b) == IF IsNaN(a) \/ IsNaN(b) THEN NaN ELSE Norm(a[1] * b[1], a[2] * b[2])
\* a / b for b # 0 (every division of the source is guarded against a zero divisor)
FDiv(a, b) == IF IsNaN(a) \/ IsNaN(b) THEN NaN ELSE Norm(a[1] * b[2], a[2] * b[1])
\* comparisons with NaN are False
FLt(a, b) == ~IsNaN(a) /\ ~IsNaN(b) /\ a[1] * b[2] < b[1] * a[2]
FGt(a, b) == FLt(b, a)
FEq(a, b) == ~IsNaN(a) /\ ~IsNaN(b) /\ a = b
FNe(a, b) == ~FEq(a, b)

----------------------------------------------------------------------------
(* Python values and outcomes *)

Num(n) == [t |-> "float", v |-> F(n)]
PyNaN == [t |-> "float", v |-> NaN]
None == [t |-> "None", v |-> NaN]
\* a string float() parses, with the value it parses to
NumStr(v) == [t |-> "str", v |-> v]
\* a string float() rejects, such as "abc"
BadStr == [t |-> "badstr", v |-> NaN]

Return(v) == [kind |-> "return", exc |-> "", val |-> v, root |-> FALSE]
\* the float sqrt(v), kept by its square
ReturnRoot(v) == [kind |-> "return", exc |-> "", val |-> v, root |-> TRUE]
Raise(e) == [kind |-> "raise", exc |-> e, val |-> NaN, root |-> FALSE]
NoCall == [kind |-> "none", exc |-> "", val |-> NaN, root |-> FALSE]

\* float(x)
PyFloat(x) ==
    CASE x.t = "float" -> Return(x.v)
      [] x.t = "str" -> Return(x.v)
      [] x.t = "badstr" -> Raise("ValueError")
      [] OTHER -> Raise("TypeError")

\* x > 0 on an unconverted value: None > 0 and "10" > 0 raise TypeError
PyGtZero(x) ==
    IF x.t = "float" THEN [kind |-> "return", exc |-> "", val |-> FGt(x.v, Zero)]
    ELSE [kind |-> "raise", exc |-> "TypeError", val |-> FALSE]

\* d[k], raising KeyError when the key is absent
HasKey(d, k) == k \in DOMAIN d

\* symbol not in data_row or data_row[symbol] is None
NotMeasured(row, symbol) == ~HasKey(row, symbol) \/ row[symbol].t = "None"

\* s.get('category') == 'heavy_metal'
IsHeavyMetal(s) == HasKey(s, "category") /\ s["category"] = "heavy_metal"

\* a slip: every standard that has a category is taken for a metal
IsCategorized(s) == HasKey(s, "category")

\* s.get('category') in ['heavy_metal', 'metal']
IsMetal(s) == HasKey(s, "category") /\ s["category"] \in {"heavy_metal", "metal"}

\* logger.warning(...) or logger.error(...): the parameter the message names
\* ("" when it names none) and what it says
Warning(symbol, reason) == [symbol |-> symbol, reason |-> reason]

\* a call's outcome together with what it logged
Logged(outcome, warnings) == [ret |-> outcome, log |-> warnings]

\* The warnings of one pass of the loop body of calculate_hei (lines 51-67),
\* which calculate_cdeg (53-70) and calculate_mi (52-68) repeat: one when
\* float() fails, one when Si is not above zero, none for a reading that is
\* absent or None.
RatioStepWarnings(row, metal) ==
    IF NotMeasured(row, metal["symbol"]) THEN <<>>
    ELSE IF PyFloat(row[metal["symbol"]]).kind = "raise"
         THEN <<Warning(metal["symbol"], "Error processing")>>
    ELSE IF ~HasKey(metal, "Si") THEN <<>>
    ELSE LET si == PyFloat(metal["Si"])
         IN IF si.kind = "raise" THEN <<Warning(metal["symbol"], "Error processing")>>
            ELSE IF FGt(si.val, Zero) THEN <<>>
            ELSE <<Warning(metal["symbol"], "Si is zero")>>

\* the pass leaves the function by the KeyError of metal['Si']
RatioStepRaises(row, metal) ==
    /\ ~NotMeasured(row, metal["symbol"])
    /\ PyFloat(row[metal["symbol"]]).kind = "return"
    /\ ~HasKey(metal, "Si")

RECURSIVE RatioLoopWarnings(_, _, _)
RatioLoopWarnings(row, metals, i) ==
    IF i > Len(metals) THEN <<>>
    ELSE IF RatioStepRaises(row, metals[i]) THEN <<>>
    ELSE RatioStepWarnings(row, metals[i]) \o RatioLoopWarnings(row, metals, i + 1)

----------------------------------------------------------------------------
(* calculate_hei *)

\* One pass of the loop body over metal i, from the running sum `acc`:
\* the new sum, or the exception that leaves the function.
HeiStep(row, metal, acc) ==
    IF NotMeasured(row, metal["symbol"]) THEN Return(acc)
    ELSE LET vi == PyFloat(row[metal["symbol"]])
         IN IF vi.kind = "raise" THEN Return(acc)
            ELSE IF ~HasKey(metal, "Si") THEN Raise("KeyError")
            ELSE LET si == PyFloat(metal["Si"])
                 IN IF si.kind = "raise" THEN Return(acc)
                    ELSE IF FGt(si.val, Zero) THEN Return(FAdd(acc, FDiv(vi.val, si.val)))
                    ELSE Return(acc)

RECURSIVE HeiLoop(_, _, _, _)
HeiLoop(row, metals, i, acc) ==
    IF i > Len(metals) THEN Return(acc)
    ELSE LET r == HeiStep(row, metals[i], acc)
         IN IF r.kind = "raise" THEN r ELSE HeiLoop(row, metals, i + 1, r.val)

\* calculate_hei with the category filter of calculate_mi
calculate_hei_all_metals(row, stds) ==
    LET heavy_metals == SelectSeq(stds, IsMetal)
    IN IF heavy_metals = <<>> THEN Return(Zero)
       ELSE HeiLoop(row, heavy_metals, 1, Zero)

calculate_hei(row, stds) ==
    LET heavy_metals == SelectSeq(stds, IsHeavyMetal)
    IN IF heavy_metals = <<>> THEN Return(Zero)
       ELSE HeiLoop(row, heavy_metals, 1, Zero)

hei_warnings(row, stds) ==
    LET heavy_metals == SelectSeq(stds, IsHeavyMetal)
    IN IF heavy_metals = <<>> THEN <<Warning("", "No heavy metal standards found")>>
       ELSE RatioLoopWarnings(row, heavy_metals, 1)

----------------------------------------------------------------------------
(* calculate_cdeg *)

\* CdegStep with a reading that is not measured counted as 0
CdegStepMissingAsZero(row, metal, acc) ==
    LET vi == IF NotMeasured(row, metal["symbol"]) THEN Return(Zero)
              ELSE PyFloat(row[metal["symbol"]])
    IN IF vi.kind = "raise" THEN Return(acc)
       ELSE IF ~HasKey(metal, "Si") THEN Raise("KeyError")
       ELSE LET si == PyFloat(metal["Si"])
            IN IF si.kind = "raise" THEN Return(acc)
               ELSE IF FGt(si.val, Zero)
                    THEN Return(FAdd(acc, FSub(FDiv(vi.val, si.val), F(1))))
               ELSE Return(acc)

CdegStep(row, metal, acc) ==
    IF NotMeasured(row, metal["symbol"]) THEN Return(acc)
    ELSE LET vi == PyFloat(row[metal["symbol"]])
         IN IF vi.kind = "raise" THEN Return(acc)
            ELSE IF ~HasKey(metal, "Si") THEN Raise("KeyError")
            ELSE LET si == PyFloat(metal["Si"])
                 IN IF si.kind = "raise" THEN Return(acc)
                    ELSE IF FGt(si.val, Zero)
                         THEN Return(FAdd(acc, FSub(FDiv(vi.val, si.val), F(1))))
                    ELSE Return(acc)

RECURSIVE CdegLoop(_, _, _, _)
CdegLoop(row, metals, i, acc) ==
    IF i > Len(metals) THEN Return(acc)
    ELSE LET r == CdegStep(row, metals[i], acc)
         IN IF r.kind = "raise" THEN r ELSE CdegLoop(row, metals, i + 1, r.val)

\* calculate_cdeg with the result clamped at zero
calculate_cdeg_clamped(row, stds) ==
    LET heavy_metals == SelectSeq(stds, IsHeavyMetal)
    IN IF heavy_metals = <<>> THEN Return(Zero)
       ELSE LET r == CdegLoop(row, heavy_metals, 1, Zero)
            IN IF r.kind = "return" /\ FLt(r.val, Zero) THEN Return(Zero) ELSE r

calculate_cdeg(row, stds) ==
    LET heavy_metals == SelectSeq(stds, IsHeavyMetal)
    IN IF heavy_metals = <<>> THEN Return(Zero)
       ELSE CdegLoop(row, heavy_metals, 1, Zero)

cdeg_warnings(row, stds) ==
    LET heavy_metals == SelectSeq(stds, IsHeavyMetal)
    IN IF heavy_metals = <<>> THEN <<Warning("", "No heavy metal standards found")>>
       ELSE RatioLoopWarnings(row, heavy_metals, 1)

----------------------------------------------------------------------------
(* calculate_mi *)

\* The loop's locals: the running sum and the count of metals added to it.
MiAcc(sum, count) == [kind |-> "return", exc |-> "", sum |-> sum, count |-> count]
MiRaise(e) == [kind |-> "raise", exc |-> e, sum |-> NaN, count |-> 0]

MiStep(row, metal, acc) ==
    IF NotMeasured(row, metal["symbol"]) THEN acc
    ELSE LET vi == PyFloat(row[metal["symbol"]])
         IN IF vi.kind = "raise" THEN acc
            ELSE IF ~HasKey(metal, "Si") THEN MiRaise("KeyError")
            ELSE LET si == PyFloat(metal["Si"])
                 IN IF si.kind = "raise" THEN acc
                    ELSE IF FGt(si.val, Zero)
                         THEN MiAcc(FAdd(acc.sum, FDiv(vi.val, si.val)), acc.count + 1)
                    ELSE acc

RECURSIVE MiLoop(_, _, _, _)
MiLoop(row, metals, i, acc) ==
    IF i > Len(metals) THEN acc
    ELSE LET r == MiStep(row, metals[i], acc)
         IN IF r.kind = "raise" THEN r ELSE MiLoop(row, metals, i + 1, r)

\* calculate_mi dividing by the number of metal standards
calculate_mi_by_standards(row, stds) ==
    LET all_metals == SelectSeq(stds, IsMetal)
    IN IF all_metals = <<>> THEN Return(Zero)
       ELSE LET r == MiLoop(row, all_metals, 1, MiAcc(Zero, 0))
            IN IF r.kind = "raise" THEN Raise(r.exc)
               ELSE IF r.count = 0 THEN Return(Zero)
               ELSE Return(FDiv(r.sum, F(Len(all_metals))))

calculate_mi(row, stds) ==
    LET all_metals == SelectSeq(stds, IsMetal)
    IN IF all_metals = <<>> THEN Return(Zero)
       ELSE LET r == MiLoop(row, all_metals, 1, MiAcc(Zero, 0))
            IN IF r.kind = "raise" THEN Raise(r.exc)
               ELSE IF r.count = 0 THEN Return(Zero)
               ELSE Return(FDiv(r.sum, F(r.count)))

mi_warnings(row, stds) ==
    LET all_metals == SelectSeq(stds, IsMetal)
    IN IF all_metals = <<>> THEN <<Warning("", "No metal standards found")>>
       ELSE LET r == MiLoop(row, all_metals, 1, MiAcc(Zero, 0))
                w == RatioLoopWarnings(row, all_metals, 1)
            IN IF r.kind = "return" /\ r.count = 0
               THEN Append(w, Warning("", "No valid metals processed"))
               ELSE w

----------------------------------------------------------------------------
(* The sub-index shared by calculate_hpi and calculate_wqi *)

\* SubIndex measuring the reading from zero instead of from the ideal value
SubIndexFromZero(vi, ii, si) ==
    IF FNe(FSub(si, ii), Zero)
    THEN FMul(FDiv(vi, FSub(si, ii)), F(100))
    ELSE IF FGt(si, Zero) THEN FMul(FDiv(vi, si), F(100)) ELSE Zero

\* qi of hpi.py lines 74-78 and wqi.py lines 83-87
SubIndex(vi, ii, si) ==
    IF FNe(FSub(si, ii), Zero)
    THEN FMul(FDiv(FSub(vi, ii), FSub(si, ii)), F(100))
    ELSE IF FGt(si, Zero) THEN FMul(FDiv(vi, si), F(100)) ELSE Zero

\* The loops' locals: the weighted sum and the sum of the weights.
WAcc(sum, weight) == [kind |-> "return", exc |-> "", sum |-> sum, weight |-> weight]
WRaise(e) == [kind |-> "raise", exc |-> e, sum |-> NaN, weight |-> NaN]

\* The warnings of one pass of the loop body of calculate_hpi (lines 62-86),
\* which calculate_wqi (72-96) repeats: one when float() fails, none for a
\* reading that is absent or None and none for a limit that is zero.
WeightedStepWarnings(row, metal) ==
    IF NotMeasured(row, metal["symbol"]) THEN <<>>
    ELSE IF PyFloat(row[metal["symbol"]]).kind = "raise"
         THEN <<Warning(metal["symbol"], "Error processing")>>
    ELSE IF ~HasKey(metal, "Ii") THEN <<>>
    ELSE IF PyFloat(metal["Ii"]).kind = "raise"
         THEN <<Warning(metal["symbol"], "Error processing")>>
    ELSE IF PyFloat(metal["Si"]).kind = "raise"
         THEN <<Warning(metal["symbol"], "Error processing")>>
    ELSE <<>>

\* the pass leaves the function by the KeyError of metal['Ii']
WeightedStepRaises(row, metal) ==
    /\ ~NotMeasured(row, metal["symbol"])
    /\ PyFloat(row[metal["symbol"]]).kind = "return"
    /\ ~HasKey(metal, "Ii")

RECURSIVE WeightedLoopWarnings(_, _, _)
WeightedLoopWarnings(row, metals, i) ==
    IF i > Len(metals) THEN <<>>
    ELSE IF WeightedStepRaises(row, metals[i]) THEN <<>>
    ELSE WeightedStepWarnings(row, metals[i]) \o WeightedLoopWarnings(row, metals, i + 1)

----------------------------------------------------------------------------
(* calculate_hpi *)

\* sum(s['Si'] for s in heavy_metals if s['Si'] > 0)
RECURSIVE TotalSi(_, _, _)
TotalSi(metals, i, acc) ==
    IF i > Len(metals) THEN Return(acc)
    ELSE IF ~HasKey(metals[i], "Si") THEN Raise("KeyError")
    ELSE LET gt == PyGtZero(metals[i]["Si"])
         IN IF gt.kind = "raise" THEN Raise(gt.exc)
            ELSE TotalSi(metals, i + 1,
                         IF gt.val THEN FAdd(acc, metals[i]["Si"].v) ELSE acc)

HpiStep(row, metal, total_si, acc) ==
    IF NotMeasured(row, metal["symbol"]) THEN acc
    ELSE LET vi == PyFloat(row[metal["symbol"]])
         IN IF vi.kind = "raise" THEN acc
            ELSE IF ~HasKey(metal, "Ii") THEN WRaise("KeyError")
            ELSE LET ii == PyFloat(metal["Ii"])
                 IN IF ii.kind = "raise" THEN acc
                    ELSE LET si == PyFloat(metal["Si"])
                         IN IF si.kind = "raise" THEN acc
                            ELSE LET wi == FDiv(si.val, total_si)
                                     qi == SubIndex(vi.val, ii.val, si.val)
                                 IN WAcc(FAdd(acc.sum, FMul(wi, qi)), FAdd(acc.weight, wi))

RECURSIVE HpiLoop(_, _, _, _, _)
HpiLoop(row, metals, total_si, i, acc) ==
    IF i > Len(metals) THEN acc
    ELSE LET r == HpiStep(row, metals[i], total_si, acc)
         IN IF r.kind = "raise" THEN r ELSE HpiLoop(row, metals, total_si, i + 1, r)

\* calculate_hpi: what it returns or raises, and what it logs on the way
calculate_hpi_logged(row, stds) ==
    LET heavy_metals == SelectSeq(stds, IsHeavyMetal)
    IN IF heavy_metals = <<>>
       THEN Logged(Return(Zero), <<Warning("", "No heavy metal standards found")>>)
       ELSE LET total_si == TotalSi(heavy_metals, 1, Zero)
            IN IF total_si.kind = "raise" THEN Logged(total_si, <<>>)
               ELSE IF FEq(total_si.val, Zero)
                    THEN Logged(Return(Zero), <<Warning("", "Total Si is zero")>>)
               ELSE LET r == HpiLoop(row, heavy_metals, total_si.val, 1, WAcc(Zero, Zero))
                        w == WeightedLoopWarnings(row, heavy_metals, 1)
                    IN IF r.kind = "raise" THEN Logged(Raise(r.exc), w)
                       ELSE IF FEq(r.weight, Zero)
                            THEN Logged(Return(Zero),
                                        Append(w, Warning("", "No valid metals processed")))
                       ELSE Logged(Return(FDiv(r.sum, r.weight)), w)

calculate_hpi(row, stds) == calculate_hpi_logged(row, stds).ret

hpi_warnings(row, stds) == calculate_hpi_logged(row, stds).log

----------------------------------------------------------------------------
(* calculate_wqi *)

\* [s for s in standards if s.get('Si', 0) > 0], or the TypeError of the comparison
RECURSIVE ValidStandards(_, _, _)
ValidStandards(stds, i, acc) ==
    IF i > Len(stds) THEN [kind |-> "return", exc |-> "", val |-> acc]
    ELSE LET gt == IF HasKey(stds[i], "Si") THEN PyGtZero(stds[i]["Si"]) ELSE PyGtZero(Num(0))
         IN IF gt.kind = "raise" THEN [kind |-> "raise", exc |-> gt.exc, val |-> <<>>]
            ELSE ValidStandards(stds, i + 1, IF gt.val THEN Append(acc, stds[i]) ELSE acc)

\* sum(1 / s['Si'] for s in valid_standards)
RECURSIVE SumInverseSi(_, _)
SumInverseSi(valid, i) ==
    IF i > Len(valid) THEN Zero
    ELSE FAdd(FDiv(F(1), valid[i]["Si"].v), SumInverseSi(valid, i + 1))

\* WqiStep with the weight k * Si instead of k / Si
WqiStepWeightBySi(row, param, k, acc) ==
    IF NotMeasured(row, param["symbol"]) THEN acc
    ELSE LET vi == PyFloat(row[param["symbol"]])
         IN IF vi.kind = "raise" THEN acc
            ELSE IF ~HasKey(param, "Ii") THEN WRaise("KeyError")
            ELSE LET ii == PyFloat(param["Ii"])
                 IN IF ii.kind = "raise" THEN acc
                    ELSE LET si == PyFloat(param["Si"])
                         IN IF si.kind = "raise" THEN acc
                            ELSE LET wi == FMul(k, si.val)
                                     qi == SubIndex(vi.val, ii.val, si.val)
                                 IN WAcc(FAdd(acc.sum, FMul(wi, qi)), FAdd(acc.weight, wi))

WqiStep(row, param, k, acc) ==
    IF NotMeasured(row, param["symbol"]) THEN acc
    ELSE LET vi == PyFloat(row[param["symbol"]])
         IN IF vi.kind = "raise" THEN acc
            ELSE IF ~HasKey(param, "Ii") THEN WRaise("KeyError")
            ELSE LET ii == PyFloat(param["Ii"])
                 IN IF ii.kind = "raise" THEN acc
                    ELSE LET si == PyFloat(param["Si"])
                         IN IF si.kind = "raise" THEN acc
                            ELSE LET wi == FDiv(k, si.val)
                                     qi == SubIndex(vi.val, ii.val, si.val)
                                 IN WAcc(FAdd(acc.sum, FMul(wi, qi)), FAdd(acc.weight, wi))

RECURSIVE WqiLoop(_, _, _, _, _)
WqiLoop(row, valid, k, i, acc) ==
    IF i > Len(valid) THEN acc
    ELSE LET r == WqiStep(row, valid[i], k, acc)
         IN IF r.kind = "raise" THEN r ELSE WqiLoop(row, valid, k, i + 1, r)

\* calculate_wqi: what it returns or raises, and what it logs on the way
calculate_wqi_logged(row, stds) ==
    IF stds = <<>> THEN Logged(Return(Zero), <<Warning("", "No standards provided")>>)
    ELSE LET valid_standards == ValidStandards(stds, 1, <<>>)
         IN IF valid_standards.kind = "raise" THEN Logged(Raise(valid_standards.exc), <<>>)
            ELSE IF valid_standards.val = <<>>
                 THEN Logged(Return(Zero), <<Warning("", "No valid standards with Si > 0")>>)
            ELSE LET sum_inverse_si == SumInverseSi(valid_standards.val, 1)
                 IN IF FEq(sum_inverse_si, Zero)
                    THEN Logged(Return(Zero), <<Warning("", "Sum of inverse Si is zero")>>)
                    ELSE LET k == FDiv(F(1), sum_inverse_si)
                             r == WqiLoop(row, valid_standards.val, k, 1, WAcc(Zero, Zero))
                             w == WeightedLoopWarnings(row, valid_standards.val, 1)
                         IN IF r.kind = "raise" THEN Logged(Raise(r.exc), w)
                            ELSE IF FEq(r.weight, Zero)
                                 THEN Logged(Return(Zero),
                                             Append(w, Warning("", "No valid parameters")))
                            ELSE Logged(Return(FDiv(r.sum, r.weight)), w)

calculate_wqi(row, stds) == calculate_wqi_logged(row, stds).ret

wqi_warnings(row, stds) == calculate_wqi_logged(row, stds).log

----------------------------------------------------------------------------
(* calculate_pig *)

\* x / 100 and x ** 2 on an argument as passed: a str raises TypeError
IsNumber(x) == x.t = "float"

\* calculate_pig without the division of HPI by 100
calculate_pig_unnormalized(hpi_arg, hei_arg) ==
    IF hpi_arg.t = "None" \/ hei_arg.t = "None" THEN Return(Zero)
    ELSE IF ~IsNumber(hpi_arg) \/ ~IsNumber(hei_arg) THEN Return(Zero)
    ELSE ReturnRoot(FDiv(FAdd(FMul(hpi_arg.v, hpi_arg.v), FMul(hei_arg.v, hei_arg.v)), F(2)))

calculate_pig(hpi_arg, hei_arg) ==
    IF hpi_arg.t = "None" \/ hei_arg.t = "None" THEN Return(Zero)
    ELSE IF ~IsNumber(hpi_arg) THEN Return(Zero)      \* TypeError, caught
    ELSE LET hpi_normalized == FDiv(hpi_arg.v, F(100))
         IN IF ~IsNumber(hei_arg) THEN Return(Zero)   \* TypeError, caught
            ELSE \* sqrt(a) / sqrt(2), kept as the root of a / 2
                 ReturnRoot(FDiv(FAdd(FMul(hpi_normalized, hpi_normalized),
                                      FMul(hei_arg.v, hei_arg.v)), F(2)))

pig_warnings(hpi_arg, hei_arg) ==
    IF hpi_arg.t = "None" \/ hei_arg.t = "None"
    THEN <<Warning("", "HPI or HEI is None")>>
    ELSE IF ~IsNumber(hpi_arg) \/ ~IsNumber(hei_arg)
         THEN <<Warning("", "Error calculating PIG")>>
    ELSE <<>>

----------------------------------------------------------------------------
(* The classifiers *)

get_hpi_classification(x) ==
    IF FLt(x, F(100)) THEN "Low pollution"
    ELSE IF FLt(x, F(200)) THEN "Medium pollution"
    ELSE "High pollution"

\* get_hei_classification with the thresholds in the lower bucket
get_hei_classification_closed_above(x) ==
    IF FLt(x, F(10)) \/ FEq(x, F(10)) THEN "Low contamination"
    ELSE IF FLt(x, F(20)) \/ FEq(x, F(20)) THEN "Medium contamination"
    ELSE "High contamination"

get_hei_classification(x) ==
    IF FLt(x, F(10)) THEN "Low contamination"
    ELSE IF FLt(x, F(20)) THEN "Medium contamination"
    ELSE "High contamination"

get_mi_classification(x) ==
    IF FLt(x, F(1)) THEN "Acceptable"
    ELSE "Above permissible limits"

get_cdeg_classification(x) ==
    IF FLt(x, F(1)) THEN "Low contamination"
    ELSE IF FLt(x, F(3)) THEN "Medium contamination"
    ELSE "High contamination"

get_wqi_classification(x) ==
    IF FLt(x, F(50)) THEN "Excellent"
    ELSE IF FLt(x, F(100)) THEN "Good"
    ELSE IF FLt(x, F(200)) THEN "Poor"
    ELSE "Very Poor"

get_pig_classification(x) ==
    IF FLt(x, F(1)) THEN "Low pollution"
    ELSE IF FLt(x, F(2)) THEN "Moderate pollution"
    ELSE IF FLt(x, F(5)) THEN "High pollution"
    ELSE "Very high pollution"

----------------------------------------------------------------------------
(* utils/unit_converter.py *)

MgL == <<"m", "g", "/", "L">>
Ppm == <<"p", "p", "m">>
MicroGL == <<"mu", "g", "/", "L">>     \* "mu" is the one character U+00B5
UgL == <<"u", "g", "/", "L">>
Ppb == <<"p", "p", "b">>

CONVERSION_FACTORS ==
    [u \in {MgL, Ppm, MicroGL, UgL, Ppb} |-> IF u \in {MgL, Ppm} THEN 1000 ELSE 1]

Whitespace == {" ", "\t", "\n"}

\* str.strip()
RECURSIVE LStrip(_)
LStrip(str) ==
    IF str # <<>> /\ Head(str) \in Whitespace THEN LStrip(Tail(str)) ELSE str

RECURSIVE RStrip(_)
RStrip(str) ==
    IF str # <<>> /\ str[Len(str)] \in Whitespace
    THEN RStrip(SubSeq(str, 1, Len(str) - 1)) ELSE str

Strip(str) == RStrip(LStrip(str))

\* a slip: the unit is looked up as given, without line 41
convert_to_ppb_unstripped(val, unit_arg) ==
    IF unit_arg \notin DOMAIN CONVERSION_FACTORS THEN Raise("ValueError")
    ELSE Return(FMul(val, F(CONVERSION_FACTORS[unit_arg])))

convert_to_ppb(val, unit_arg) ==
    LET unit == Strip(unit_arg)
    IN IF unit \notin DOMAIN CONVERSION_FACTORS THEN Raise("ValueError")
       ELSE Return(FMul(val, F(CONVERSION_FACTORS[unit])))

\* value is None or (isinstance(value, float) and value != value)
IsNoneOrNaN(x) == x.t = "None" \/ (x.t = "float" /\ IsNaN(x.v))

\* One pass of the loop body for `key`: the entry it adds to `converted`,
\* if any.  Both float() and convert_to_ppb() are inside the try block.
ConvertsKey(row, unit_arg, excluded, key) ==
    /\ key \notin excluded
    /\ ~IsNoneOrNaN(row[key])
    /\ PyFloat(row[key]).kind = "return"
    /\ convert_to_ppb(PyFloat(row[key]).val, unit_arg).kind = "return"

\* exclude_columns: None (the default) or a list of keys
NoColumns == [t |-> "None", cols |-> {}]
Columns(cols) == [t |-> "list", cols |-> cols]

\* a slip: a reading that does not convert is kept as 0
convert_row_to_ppb_defaulting(row, unit_arg, exclude_arg) ==
    LET excluded == IF exclude_arg.t = "None" THEN {} ELSE exclude_arg.cols
    IN Return([key \in DOMAIN row \ excluded |->
                  IF ConvertsKey(row, unit_arg, excluded, key)
                  THEN convert_to_ppb(PyFloat(row[key]).val, unit_arg).val
                  ELSE Zero])

convert_row_to_ppb(row, unit_arg, exclude_arg) ==
    LET excluded == IF exclude_arg.t = "None" THEN {} ELSE exclude_arg.cols
        kept == {key \in DOMAIN row : ConvertsKey(row, unit_arg, excluded, key)}
    IN Return([key \in kept |-> convert_to_ppb(PyFloat(row[key]).val, unit_arg).val])

\* The keys of a row in the order the loop of line 75 meets them.
KeyOrder == <<"Pb", "Hg", "Location">>

\* The warnings of convert_row_to_ppb: one for every key that is not
\* excluded, not None and not NaN and whose float() or convert_to_ppb()
\* raises; none for a key that lines 77-82 skip.
RECURSIVE RowWarnings(_, _, _, _)
RowWarnings(row, unit_arg, excluded, i) ==
    IF i > Len(KeyOrder) THEN <<>>
    ELSE LET key == KeyOrder[i]
             rest == RowWarnings(row, unit_arg, excluded, i + 1)
         IN IF key \notin DOMAIN row THEN rest
            ELSE IF key \in excluded THEN rest
            ELSE IF IsNoneOrNaN(row[key]) THEN rest
            ELSE IF ConvertsKey(row, unit_arg, excluded, key) THEN rest
            ELSE <<Warning(key, "Could not convert value")>> \o rest

convert_row_warnings(row, unit_arg, exclude_arg) ==
    RowWarnings(row, unit_arg, IF exclude_arg.t = "None" THEN {} ELSE exclude_arg.cols, 1)

----------------------------------------------------------------------------
(* What a call leaves in its arguments *)

\* The `standards` list after a call of the index function `name`: each
\* function filters with a list comprehension, which builds a new list, and
\* assigns to no standard (hpi.py 41, hei.py 38, cdeg.py 40, mi.py 39,
\* wqi.py 48).
standards_filtered_in_place(name, stds) ==
    IF name \in {"hpi", "hei", "cdeg"} THEN SelectSeq(stds, IsHeavyMetal)
    ELSE IF name = "mi" THEN SelectSeq(stds, IsMetal)
    ELSE stds

standards_after(name, stds) == stds

\* The `data_row` dict after a call of an index function, which reads it
\* with `in` and [] alone.
data_row_after(name, row) == row

\* The `data_row` dict after convert_row_to_ppb, which writes the converted
\* values to the new dict of line 73.
raw_row_after(row) == row

----------------------------------------------------------------------------
(* Inputs *)

Symbols == <<"Pb", "Hg", "Zn">>

\* <<category, Si, Ii>>.  A heavy metal has a limit above its ideal value (the
\* ideal value zero or not), equal to it, zero, or negative.  Ii of a metal
\* is read by calculate_wqi alone, which reads no category, so the metals
\* and the others repeat fewer of the limits.
Parameters ==
    {<<"heavy_metal", 10, 0>>, <<"heavy_metal", 10, 5>>, <<"heavy_metal", 1, 1>>,
     <<"heavy_metal", 0, 0>>, <<"heavy_metal", -10, 0>>,
     <<"metal", 10, 0>>, <<"metal", 0, 0>>,
     <<"other", 10, 0>>}

\* a reading is None, a string that is no number, or a number
ReadingValues == {None, BadStr, Num(2), Num(5), Num(10), Num(20)}

\* the well-typed standards for symbol number i
StandardsOf(i) ==
    {[symbol |-> Symbols[i], category |-> p[1], Si |-> Num(p[2]), Ii |-> Num(p[3])] :
        p \in Parameters}

RECURSIVE Catalogs(_)
Catalogs(n) ==
    IF n = 0 THEN {<<>>}
    ELSE {Append(cat, s) : cat \in Catalogs(n - 1), s \in StandardsOf(n)}

SymbolSet(n) == {Symbols[i] : i \in 1..n}

Rows(keys, vals) == UNION {[S -> vals] : S \in SUBSET keys}

Idle ==
    /\ op = ""
    /\ ret = NoCall
    /\ log = <<>>

NoIndexCall ==
    /\ standards = <<>>
    /\ data_row = <<>>

NoConversion ==
    /\ raw_row = <<>>
    /\ input_unit = <<>>
    /\ exclude_columns = NoColumns

NoPig ==
    /\ hpi = None
    /\ hei = None

NoClassification == value = Zero

NoSamples ==
    /\ samples = <<>>
    /\ alone = <<>>

\* An index function is given a catalog of well-typed standards (numeric Si
\* and Ii) and a sample whose readings may be absent, None or non-numeric.
Init ==
    /\ \E n \in 0..MaxStandards :
        /\ standards \in Catalogs(n)
        /\ data_row \in Rows(SymbolSet(n), ReadingValues)
    /\ NoConversion /\ NoPig /\ NoClassification
    /\ NoSamples
    /\ Idle

\* As Init, with standards whose Si, Ii or category may be missing, None or
\* a string, and readings that may be NaN.
MalformedLimits == {Num(10), None, BadStr}
MalformedIdeals == {Num(0), None}
MalformedReadings == {None, BadStr, PyNaN, Num(5)}

\* the dict d without the keys in `missing`
Without(d, missing) == [k \in DOMAIN d \ missing |-> d[k]]

MalformedStandardsOf(i) ==
    {Without([symbol |-> Symbols[i], category |-> c, Si |-> si, Ii |-> ii], missing) :
        c \in {"heavy_metal", "other"}, si \in MalformedLimits, ii \in MalformedIdeals,
        missing \in SUBSET {"category", "Si", "Ii"}}

RECURSIVE MalformedCatalogs(_)
MalformedCatalogs(n) ==
    IF n = 0 THEN {<<>>}
    ELSE {Append(cat, s) : cat \in MalformedCatalogs(n - 1), s \in MalformedStandardsOf(n)}

InitMalformed ==
    /\ \E n \in 0..MaxStandards :
        /\ standards \in MalformedCatalogs(n)
        /\ data_row \in Rows(SymbolSet(n), MalformedReadings)
    /\ NoConversion /\ NoPig /\ NoClassification
    /\ NoSamples
    /\ Idle

\* convert_row_to_ppb is given a row of raw values, a unit string and the
\* columns to leave out.
RawKeys == {"Pb", "Hg", "Location"}
RawValues == {None, PyNaN, BadStr, Num(5), NumStr(F(5)), NumStr(NaN)}

UnitTags ==
    {MgL, Ppm, MicroGL, UgL, Ppb,
     <<"L">>, <<"M", "G", "/", "L">>, <<"P", "P", "B">>, <<"m", "g", " ", "/", "L">>, <<>>}

RECURSIVE Pad(_)
Pad(n) == IF n = 0 THEN <<>> ELSE <<" ">> \o Pad(n - 1)

UnitStrings == {Pad(l) \o u \o Pad(r) : l \in 0..MaxPad, r \in 0..MaxPad, u \in UnitTags}

InitNorm ==
    /\ raw_row \in Rows(RawKeys, RawValues)
    /\ input_unit \in UnitStrings
    /\ exclude_columns \in {NoColumns} \cup {Columns(c) : c \in SUBSET RawKeys}
    /\ NoIndexCall /\ NoPig /\ NoClassification
    /\ NoSamples
    /\ Idle

\* convert_to_ppb is given a number and a unit string.
ConvertArgs == {F(-5), Zero, <<1, 2>>, F(5), F(10)}

InitUnit ==
    /\ value \in ConvertArgs
    /\ input_unit \in UnitStrings
    /\ raw_row = <<>>
    /\ exclude_columns = NoColumns
    /\ NoIndexCall /\ NoPig
    /\ NoSamples
    /\ Idle

\* calculate_pig is given two index values, either of which may be None.
HpiArgs ==
    {None, BadStr, Num(-100), Num(0), Num(1), Num(50), Num(100), Num(140), Num(200), Num(700)}
HeiArgs ==
    {None, BadStr, Num(-1), Num(0), [t |-> "float", v |-> <<1, 2>>], Num(1), Num(2), Num(7),
     Num(10), Num(20)}

InitPig ==
    /\ hpi \in HpiArgs
    /\ hei \in HeiArgs
    /\ NoIndexCall /\ NoConversion /\ NoClassification
    /\ NoSamples
    /\ Idle

\* A classifier is given an index value: the thresholds, their neighbours
\* and values between them.
ClassifierArgs ==
    {F(n) : n \in {-1, 0, 1, 2, 3, 4, 5, 6, 9, 10, 11, 19, 20, 21,
                   49, 50, 51, 99, 100, 101, 199, 200, 201}}
    \cup {<<-1, 2>>, <<1, 2>>, <<3, 2>>, <<199, 2>>, <<399, 2>>}

InitClass ==
    /\ value \in ClassifierArgs
    /\ NoIndexCall /\ NoConversion /\ NoPig
    /\ NoSamples
    /\ Idle

\* Samples are processed against one catalog: each is converted, the five
\* index functions are called on the converted sample in any order, and
\* calculate_pig on the HPI and HEI of the sample once both are there.
PipelineCatalogs ==
    {<<[symbol |-> "Pb", category |-> "heavy_metal", Si |-> Num(10), Ii |-> Num(0)],
       [symbol |-> "Hg", category |-> "metal", Si |-> Num(10), Ii |-> Num(0)],
       [symbol |-> "Zn", category |-> "other", Si |-> Num(10), Ii |-> Num(0)]>>,
     <<[symbol |-> "Pb", category |-> "heavy_metal", Si |-> Num(10), Ii |-> Num(5)],
       [symbol |-> "Hg", category |-> "heavy_metal", Si |-> Num(1), Ii |-> Num(1)]>>}

\* the rows as read, with their unit: 0.005 and "0.002" mg/L, and ug/L
PipelineInputs ==
    <<[raw |-> [k \in {"Pb", "Hg", "Location"} |->
                    IF k = "Pb" THEN [t |-> "float", v |-> <<1, 200>>]
                    ELSE IF k = "Hg" THEN NumStr(<<1, 500>>) ELSE BadStr],
       unit |-> <<" ">> \o MgL],
      [raw |-> [k \in {"Pb", "Hg", "Zn"} |->
                    IF k = "Pb" THEN None ELSE IF k = "Hg" THEN Num(10) ELSE Num(20)],
       unit |-> Ppb],
      [raw |-> [k \in {"Pb", "Hg"} |-> IF k = "Pb" THEN Num(10) ELSE PyNaN],
       unit |-> UgL]>>

PipelineExclude == Columns({"Location"})

IndexNames == {"hpi", "hei", "mi", "cdeg", "wqi"}

\* the index function `name` applied to a converted sample
IndexOutcome(name, row, stds) ==
    CASE name = "hpi" -> calculate_hpi(row, stds)
      [] name = "hei" -> calculate_hei(row, stds)
      [] name = "mi" -> calculate_mi(row, stds)
      [] name = "cdeg" -> calculate_cdeg(row, stds)
      [] name = "wqi" -> calculate_wqi(row, stds)

\* a returned index value passed on as an argument
AsArgument(outcome) == [t |-> "float", v |-> outcome.val]

\* the dict convert_row_to_ppb returned, passed on as a data_row of floats
AsDataRow(converted) == [k \in DOMAIN converted |-> [t |-> "float", v |-> converted[k]]]

\* a sample before any call
NewSample(input) ==
    [raw |-> input.raw, unit |-> input.unit, sample |-> NoCall,
     hpi |-> NoCall, hei |-> NoCall, mi |-> NoCall, cdeg |-> NoCall, wqi |-> NoCall,
     pig |-> NoCall]

\* the sample processed alone, one call after the other
ProcessedAlone(input, stds) ==
    LET converted == convert_row_to_ppb(input.raw, input.unit, PipelineExclude)
        row == AsDataRow(converted.val)
        h == calculate_hpi(row, stds)
        e == calculate_hei(row, stds)
    IN [raw |-> input.raw, unit |-> input.unit, sample |-> converted,
        hpi |-> h, hei |-> e,
        mi |-> calculate_mi(row, stds),
        cdeg |-> calculate_cdeg(row, stds),
        wqi |-> calculate_wqi(row, stds),
        pig |-> calculate_pig(AsArgument(h), AsArgument(e))]

InitPipeline ==
    /\ standards \in PipelineCatalogs
    /\ \E n \in 1..MaxSamples :
        LET input(s) == PipelineInputs[((s - 1) % Len(PipelineInputs)) + 1]
        IN /\ samples = [s \in 1..n |-> NewSample(input(s))]
           /\ alone = [standards |-> standards,
                       samples |-> [s \in 1..n |-> ProcessedAlone(input(s), standards)]]
    /\ data_row = <<>>
    /\ NoConversion /\ NoPig /\ NoClassification
    /\ Idle

----------------------------------------------------------------------------
(* The calls *)

Call(name, call) ==
    /\ Idle
    /\ op' = name
    /\ ret' = call.ret
    /\ log' = call.log
    /\ UNCHANGED <<standards, data_row, raw_row, input_unit, exclude_columns, hpi, hei, value,
                   samples, alone>>

CalculateHpi ==
    Call("calculate_hpi", calculate_hpi_logged(data_row, standards))
CalculateHei ==
    Call("calculate_hei",
         Logged(calculate_hei(data_row, standards), hei_warnings(data_row, standards)))
CalculateMi ==
    Call("calculate_mi",
         Logged(calculate_mi(data_row, standards), mi_warnings(data_row, standards)))
CalculateCdeg ==
    Call("calculate_cdeg",
         Logged(calculate_cdeg(data_row, standards), cdeg_warnings(data_row, standards)))
CalculateWqi ==
    Call("calculate_wqi", calculate_wqi_logged(data_row, standards))

ConvertRowToPpb ==
    Call("convert_row_to_ppb",
         Logged(convert_row_to_ppb(raw_row, input_unit, exclude_columns),
                convert_row_warnings(raw_row, input_unit, exclude_columns)))

ConvertToPpb == Call("convert_to_ppb", Logged(convert_to_ppb(value, input_unit), <<>>))

CalculatePig == Call("calculate_pig", Logged(calculate_pig(hpi, hei), pig_warnings(hpi, hei)))

GetHpiClassification ==
    Call("get_hpi_classification", Logged(Return(get_hpi_classification(value)), <<>>))
GetHeiClassification ==
    Call("get_hei_classification", Logged(Return(get_hei_classification(value)), <<>>))
GetMiClassification ==
    Call("get_mi_classification", Logged(Return(get_mi_classification(value)), <<>>))
GetCdegClassification ==
    Call("get_cdeg_classification", Logged(Return(get_cdeg_classification(value)), <<>>))
GetWqiClassification ==
    Call("get_wqi_classification", Logged(Return(get_wqi_classification(value)), <<>>))
GetPigClassification ==
    Call("get_pig_classification", Logged(Return(get_pig_classification(value)), <<>>))

\* convert_row_to_ppb on the raw row of sample s
Normalize(s) ==
    /\ samples[s].sample = NoCall
    /\ samples' = [samples EXCEPT
                      ![s].sample = convert_row_to_ppb(samples[s].raw, samples[s].unit,
                                                       PipelineExclude),
                      ![s].raw = raw_row_after(@)]
    /\ UNCHANGED <<standards, data_row, raw_row, input_unit, exclude_columns, hpi, hei, value,
                   op, ret, log, alone>>

\* the index function `name` on the converted sample s and the catalog
Index(s, name) ==
    /\ samples[s].sample.kind = "return"
    /\ samples[s][name] = NoCall
    /\ samples' = [samples EXCEPT
                      ![s][name] = IndexOutcome(name, AsDataRow(samples[s].sample.val),
                                                standards),
                      ![s].sample = Return(data_row_after(name, @.val))]
    /\ standards' = standards_after(name, standards)
    /\ UNCHANGED <<data_row, raw_row, input_unit, exclude_columns, hpi, hei, value,
                   op, ret, log, alone>>

SampleHpi == \E s \in DOMAIN samples : Index(s, "hpi")
SampleHei == \E s \in DOMAIN samples : Index(s, "hei")
SampleMi == \E s \in DOMAIN samples : Index(s, "mi")
SampleCdeg == \E s \in DOMAIN samples : Index(s, "cdeg")
SampleWqi == \E s \in DOMAIN samples : Index(s, "wqi")
SampleNormalize == \E s \in DOMAIN samples : Normalize(s)

\* calculate_pig on the HPI and HEI of sample s, once both have returned
SamplePig ==
    \E s \in DOMAIN samples :
        /\ samples[s].hpi.kind = "return"
        /\ samples[s].hei.kind = "return"
        /\ samples[s].pig = NoCall
        /\ samples' = [samples EXCEPT
                          ![s].pig = calculate_pig(AsArgument(samples[s].hpi),
                                                   AsArgument(samples[s].hei))]
        /\ UNCHANGED <<standards, data_row, raw_row, input_unit, exclude_columns, hpi, hei,
                       value, op, ret, log, alone>>

Next ==
    \/ CalculateHpi
    \/ CalculateHei
    \/ CalculateMi
    \/ CalculateCdeg
    \/ CalculateWqi

NextNorm == ConvertRowToPpb

NextUnit == ConvertToPpb

NextPig == CalculatePig

NextPipeline ==
    \/ SampleNormalize
    \/ SampleHpi
    \/ SampleHei
    \/ SampleMi
    \/ SampleCdeg
    \/ SampleWqi
    \/ SamplePig

NextClass ==
    \/ GetHpiClassification
    \/ GetHeiClassification
    \/ GetMiClassification
    \/ GetCdegClassification
    \/ GetWqiClassification
    \/ GetPigClassification

\* the index functions on well-typed catalogs
Spec == Init /\ [][Next]_vars

\* the index functions on catalogs with malformed fields
SpecMalformed == InitMalformed /\ [][Next]_vars

\* the unit converter
SpecNorm == InitNorm /\ [][NextNorm]_vars

\* the conversion of one value
SpecUnit == InitUnit /\ [][NextUnit]_vars

\* the composite index
SpecPig == InitPig /\ [][NextPig]_vars

\* the classifiers
SpecClass == InitClass /\ [][NextClass]_vars

\* several samples against one catalog, their calls interleaved
SpecPipeline == InitPipeline /\ [][NextPipeline]_vars

----------------------------------------------------------------------------
(* The formulas of the specification, stated over the arguments of a call *)

Idx == 1..Len(standards)
Category(i) == standards[i]["category"]
Si(i) == standards[i]["Si"].v
Ii(i) == standards[i]["Ii"].v

\* the sample holds a reading for standard i that float() accepts
Measured(i) ==
    /\ standards[i]["symbol"] \in DOMAIN data_row
    /\ data_row[standards[i]["symbol"]].t \in {"float", "str"}

Vi(i) == data_row[standards[i]["symbol"]].v

RECURSIVE SumOver(_, _)
SumOver(S, term) ==
    IF S = {} THEN Zero
    ELSE LET x == CHOOSE y \in S : TRUE
         IN FAdd(term[x], SumOver(S \ {x}, term))

HeavyMetals == {i \in Idx : Category(i) = "heavy_metal"}
Metals == {i \in Idx : Category(i) \in {"heavy_metal", "metal"}}

\* the parameters of the set S that HEI, MI and Cdeg use
Usable(S) == {i \in S : FGt(Si(i), Zero) /\ Measured(i)}

Ratios(S) == SumOver(S, [i \in S |-> FDiv(Vi(i), Si(i))])

OnePb(si, ii, cat, reading) ==
    /\ standards = <<[symbol |-> "Pb", category |-> cat, Si |-> Num(si), Ii |-> Num(ii)]>>
    /\ data_row = [k \in {"Pb"} |-> Num(reading)]

\* C6: calculate_hei returns the sum of Vi/Si over exactly the standards of
\* category heavy_metal with Si > 0 and a present, well-formed reading; a
\* heavy metal with Si = 0 and a standard of another category add nothing.
\* Pb with Si = 10 and reading 10 gives 1.0, "Low contamination".
C6_HeiFormula ==
    op = "calculate_hei" =>
        /\ ret = Return(Ratios(Usable(HeavyMetals)))
        /\ OnePb(10, 0, "heavy_metal", 10) =>
            /\ ret.val = F(1)
            /\ get_hei_classification(ret.val) = "Low contamination"

C6_Witness ==
    /\ op = "calculate_hei"
    /\ OnePb(10, 0, "heavy_metal", 10)
    /\ ret = Return(F(1))

\* a second case of C6: a heavy metal with a zero limit and a metal, both
\* with readings, beside a contributing heavy metal
C6_WitnessSkips ==
    /\ op = "calculate_hei"
    /\ Cardinality(Usable(HeavyMetals)) = 1
    /\ \E i \in Idx : Category(i) # "heavy_metal" /\ Measured(i) /\ FGt(Si(i), Zero)

\* C7: calculate_cdeg returns the sum of (Vi/Si - 1) over the usable heavy
\* metals, and the value is negative, not clamped at zero, whenever the
\* ratios sum to less than their number.  Pb with Si = 10 and reading 5
\* gives -0.5.
C7_CdegFormula ==
    op = "calculate_cdeg" =>
        LET U == Usable(HeavyMetals)
        IN /\ ret = Return(FSub(Ratios(U), F(Cardinality(U))))
           /\ FLt(Ratios(U), F(Cardinality(U))) => FLt(ret.val, Zero)
           /\ OnePb(10, 0, "heavy_metal", 5) => ret.val = <<-1, 2>>

C7_Witness ==
    /\ op = "calculate_cdeg"
    /\ OnePb(10, 0, "heavy_metal", 5)
    /\ ret = Return(<<-1, 2>>)

\* C8: calculate_mi keeps the standards of category heavy_metal or metal and
\* returns (sum of Vi/Si) / n, n being the number of parameters that
\* contributed (reading present, Si > 0).
C8_MiFormula ==
    op = "calculate_mi" =>
        LET U == Usable(Metals)
        IN U # {} => ret = Return(FDiv(Ratios(U), F(Cardinality(U))))

\* n is neither the number of metal standards nor the number of readings
C8_Witness ==
    /\ op = "calculate_mi"
    /\ Cardinality(Usable(Metals)) = 1
    /\ Cardinality(Metals) = 2
    /\ Cardinality(DOMAIN data_row) = 2
    /\ \E i \in Usable(Metals) : Category(i) = "metal" /\ ret = Return(FDiv(Vi(i), Si(i)))

----------------------------------------------------------------------------
(* HPI and WQI *)

\* Qi of the specification, section 4.2
Qi(i) ==
    IF Si(i) # Ii(i) THEN FMul(FDiv(FSub(Vi(i), Ii(i)), FSub(Si(i), Ii(i))), F(100))
    ELSE IF FGt(Si(i), Zero) THEN FMul(FDiv(Vi(i), Si(i)), F(100))
    ELSE Zero

\* the sum of Si over the heavy metals with Si > 0
TotalSiOfHeavyMetals ==
    LET S == {i \in HeavyMetals : FGt(Si(i), Zero)} IN SumOver(S, [i \in S |-> Si(i)])

HpiWeight(i) == FDiv(Si(i), TotalSiOfHeavyMetals)

\* the heavy metals present in the sample
HpiPresent == {i \in HeavyMetals : Measured(i)}

HpiWeightSum == SumOver(HpiPresent, [i \in HpiPresent |-> HpiWeight(i)])

OneHg(si, ii, reading) ==
    /\ standards = <<[symbol |-> "Pb", category |-> "other", Si |-> Num(10), Ii |-> Num(0)],
                     [symbol |-> "Hg", category |-> "heavy_metal", Si |-> Num(si), Ii |-> Num(ii)]>>
    /\ data_row = [k \in {"Hg"} |-> Num(reading)]

C4_WitnessWeighted ==
    /\ op = "calculate_hpi"
    /\ Cardinality(HpiPresent) = 2
    /\ \E i, j \in HpiPresent : Si(i) = F(10) /\ Ii(i) = F(5) /\ Si(j) = F(1)
    /\ ret.val # Zero

\* the standards with Si > 0, of any category
Eligible == {i \in Idx : FGt(Si(i), Zero)}

\* k = 1 / sum(1 / Si) over the eligible standards, in the sample or not
WqiK == FDiv(F(1), SumOver(Eligible, [i \in Eligible |-> FDiv(F(1), Si(i))]))

WqiWeight(i) == FDiv(WqiK, Si(i))

WqiPresent == {i \in Eligible : Measured(i)}

TwoOfLimitTen(cat, readingA, readingB) ==
    /\ standards = <<[symbol |-> "Pb", category |-> cat, Si |-> Num(10), Ii |-> Num(0)],
                     [symbol |-> "Hg", category |-> cat, Si |-> Num(10), Ii |-> Num(0)]>>
    /\ data_row = [k \in {"Pb", "Hg"} |-> IF k = "Pb" THEN Num(readingA) ELSE Num(readingB)]

\* C5: calculate_wqi has no category restriction: with k = 1 / sum(1 / Si)
\* over all standards with Si > 0, it returns sum(Wi * qi) / sum(Wi) over the
\* eligible standards present in the sample, Wi = k / Si, qi as Qi of HPI.
\* Two standards with Si = 10, Ii = 0 and readings 10 and 20 give 150, "Poor".
C5_WqiFormula ==
    op = "calculate_wqi" =>
        /\ WqiPresent # {} =>
            ret = Return(FDiv(SumOver(WqiPresent,
                                      [i \in WqiPresent |-> FMul(WqiWeight(i), Qi(i))]),
                              SumOver(WqiPresent, [i \in WqiPresent |-> WqiWeight(i)])))
        /\ TwoOfLimitTen("other", 10, 20) =>
            /\ ret.val = F(150)
            /\ get_wqi_classification(ret.val) = "Poor"

C5_Witness ==
    /\ op = "calculate_wqi"
    /\ TwoOfLimitTen("other", 10, 20)
    /\ ret = Return(F(150))

\* a second case of C5: k counts a standard that is not in the sample
C5_WitnessAbsentInK ==
    /\ op = "calculate_wqi"
    /\ Cardinality(Eligible) = 2
    /\ Cardinality(WqiPresent) = 1
    /\ \E i \in Eligible, j \in Eligible : Si(i) = F(10) /\ Si(j) = F(1)
    /\ ret.val # Zero

----------------------------------------------------------------------------
(* Degenerate totals *)

\* No parameter of the set S is usable: S is empty, none of its standards
\* has a well-formed reading in the sample, or none has a limit above zero.
NoneUsable(S) == \A i \in S : ~(FGt(Si(i), Zero) /\ Measured(i))

\* the cases of HPI: no heavy metal, none in the sample, or totalSi = 0
NoneUsableHpi ==
    \/ HeavyMetals = {}
    \/ \A i \in HeavyMetals : ~Measured(i)
    \/ \A i \in HeavyMetals : ~FGt(Si(i), Zero)

----------------------------------------------------------------------------
(* Malformed parameters *)

IsFinite(x) == x.t \in {"float", "str"} /\ ~IsNaN(x.v)

HasLimit(s) == HasKey(s, "Si") /\ s["Si"].t = "float" /\ ~IsNaN(s["Si"].v)
HasLimitAndIdeal(s) == HasLimit(s) /\ HasKey(s, "Ii") /\ s["Ii"].t = "float" /\ ~IsNaN(s["Ii"].v)

\* the sample without the readings that are no finite number
WellFormedReadings == [k \in {x \in DOMAIN data_row : IsFinite(data_row[x])} |-> data_row[k]]

\* C2: a parameter whose reading, Si or (in HPI and WQI) Ii is missing or not
\* a well-formed number is left out of the computation and never interrupts
\* it: every index call returns, and returns what the remaining parameters
\* give.
C2_MalformedIsExcluded ==
    /\ op = "calculate_hpi" =>
        ret = calculate_hpi(WellFormedReadings, SelectSeq(standards, HasLimitAndIdeal))
    /\ op = "calculate_wqi" =>
        ret = calculate_wqi(WellFormedReadings, SelectSeq(standards, HasLimitAndIdeal))
    /\ op = "calculate_hei" =>
        ret = calculate_hei(WellFormedReadings, SelectSeq(standards, HasLimit))
    /\ op = "calculate_mi" =>
        ret = calculate_mi(WellFormedReadings, SelectSeq(standards, HasLimit))
    /\ op = "calculate_cdeg" =>
        ret = calculate_cdeg(WellFormedReadings, SelectSeq(standards, HasLimit))

----------------------------------------------------------------------------
(* The unit of a sample *)

Recognized(unit_arg) == Strip(unit_arg) \in {MgL, Ppm, MicroGL, UgL, Ppb}

\* C1: convert_row_to_ppb with a unit that, stripped, is none of mg/L, ppm,
\* ug/L (either spelling) and ppb raises the error of convert_to_ppb, for
\* every row: it returns no mapping.
C1_InvalidUnitRaises ==
    (op = "convert_row_to_ppb" /\ ~Recognized(input_unit)) =>
        (ret.kind = "raise" /\ ret.exc = "ValueError")

----------------------------------------------------------------------------
(* The conversion of a sample *)

\* unit_arg is `tag` between runs of blanks
IsPadded(unit_arg, tag) ==
    \E l, r \in 0..Len(unit_arg) : unit_arg = Pad(l) \o tag \o Pad(r)

\* the multiplier of a unit string, 0 when it has none
Multiplier(unit_arg) ==
    IF \E tag \in {MgL, Ppm} : IsPadded(unit_arg, tag) THEN 1000
    ELSE IF \E tag \in {MicroGL, UgL, Ppb} : IsPadded(unit_arg, tag) THEN 1
    ELSE 0

\* C11: convert_to_ppb(value, unit) returns value * 1000 when unit, without
\* its surrounding whitespace, is mg/L or ppm, and value * 1 when it is
\* ug/L (either spelling) or ppb; for every other unit string it raises the
\* invalid-unit error (ValueError) and returns nothing.
C11_ConvertToPpb ==
    op = "convert_to_ppb" =>
        IF Multiplier(input_unit) = 0 THEN ret = Raise("ValueError")
        ELSE ret = Return(FMul(value, F(Multiplier(input_unit))))

\* convert_to_ppb(5, " mg/L") is 5000
C11_Witness ==
    /\ op = "convert_to_ppb"
    /\ value = F(5)
    /\ input_unit = <<" ">> \o MgL
    /\ ret = Return(F(5000))

\* convert_to_ppb(5, "ppb") is 5
C11_WitnessPpb ==
    /\ op = "convert_to_ppb"
    /\ value = F(5)
    /\ input_unit = Ppb
    /\ ret = Return(F(5))

\* "L", and mg/L in capitals, raise
C11_WitnessRaises ==
    /\ op = "convert_to_ppb"
    /\ input_unit \in {<<"L">>, <<"M", "G", "/", "L">>}
    /\ ret = Raise("ValueError")

ExcludedKeys == IF exclude_columns.t = "None" THEN {} ELSE exclude_columns.cols

\* a raw value that is a number other than NaN, or a string that reads as one
\* number (the string "nan" reads as NaN)
Coercible(x) == (x.t = "float" /\ ~IsNaN(x.v)) \/ x.t = "str"

GoodKeys == {k \in DOMAIN raw_row \ ExcludedKeys : Coercible(raw_row[k])}

\* C12: with a recognized unit, convert_row_to_ppb returns the mapping whose
\* keys are exactly the keys of the row that are not excluded and whose value
\* is not None, not NaN and coercible to a number, each mapped to its value
\* times the unit's multiplier: a bad reading is dropped, not kept as 0, the
\* other readings are still converted, and no excluded key is converted.
C12_PerReading ==
    (op = "convert_row_to_ppb" /\ Multiplier(input_unit) # 0) =>
        ret = Return([k \in GoodKeys |->
                         FMul(raw_row[k].v, F(Multiplier(input_unit)))])

\* {'Pb': 'abc', 'Hg': '5', 'Location': 5} in ppm, Location excluded, is
\* {'Hg': 5000}
C12_Witness ==
    /\ op = "convert_row_to_ppb"
    /\ raw_row = [k \in RawKeys |->
                     IF k = "Pb" THEN BadStr ELSE IF k = "Hg" THEN NumStr(F(5)) ELSE Num(5)]
    /\ input_unit = Ppm
    /\ exclude_columns = Columns({"Location"})
    /\ ret = Return([k \in {"Hg"} |-> F(5000)])

\* a None and a NaN beside a number: the number alone is converted
C12_WitnessMissing ==
    /\ op = "convert_row_to_ppb"
    /\ raw_row = [k \in RawKeys |->
                     IF k = "Pb" THEN None ELSE IF k = "Hg" THEN PyNaN ELSE Num(5)]
    /\ input_unit = Ppb
    /\ exclude_columns = NoColumns
    /\ ret = Return([k \in {"Location"} |-> F(5)])

----------------------------------------------------------------------------
(* The composite index *)

\* the square of a returned float
Square(r) == IF r.root THEN r.val ELSE FMul(r.val, r.val)
NonNegative(r) == r.root \/ ~FLt(r.val, Zero)

\* C9: calculate_pig returns 0.0, raising nothing, when hpi or hei is None,
\* whatever the other argument; on two numbers its result P has
\* 2 * P^2 = (hpi / 100)^2 + hei^2 and P >= 0.
C9_PigFormula ==
    op = "calculate_pig" =>
        /\ (hpi = None \/ hei = None) => ret = Return(Zero)
        /\ (IsNumber(hpi) /\ IsNumber(hei)) =>
            /\ ret.kind = "return"
            /\ NonNegative(ret)
            /\ FMul(F(2), Square(ret))
                   = FAdd(FMul(FDiv(hpi.v, F(100)), FDiv(hpi.v, F(100))), FMul(hei.v, hei.v))

\* hpi missing, hei a string
C9_Witness ==
    /\ op = "calculate_pig"
    /\ hpi = None
    /\ hei = BadStr
    /\ ret = Return(Zero)

\* HPI = 700 and HEI = 1 give P^2 = 25
C9_WitnessNumbers ==
    /\ op = "calculate_pig"
    /\ hpi = Num(700)
    /\ hei = Num(1)
    /\ ret = ReturnRoot(F(25))

----------------------------------------------------------------------------
(* The classifiers *)

\* bucket j of the thresholds ts: ts[j-1] <= x < ts[j], unbounded at the ends
InBucket(x, ts, j) ==
    /\ j = 1 \/ ~FLt(x, F(ts[j - 1]))
    /\ j = Len(ts) + 1 \/ FLt(x, F(ts[j]))

\* x lies in exactly one bucket, and `label` is that bucket's label
LabelOfBucket(x, ts, labels, label) ==
    /\ Cardinality({j \in 1..(Len(ts) + 1) : InBucket(x, ts, j)}) = 1
    /\ \A j \in 1..(Len(ts) + 1) : InBucket(x, ts, j) => label = labels[j]

----------------------------------------------------------------------------
(* The diagnostics of a call *)

IndexCalls ==
    {"calculate_hpi", "calculate_hei", "calculate_cdeg", "calculate_mi", "calculate_wqi"}

\* the standards of the category the index named `name` is computed over
EligibleFor(name) ==
    IF name \in {"calculate_hpi", "calculate_hei", "calculate_cdeg"} THEN HeavyMetals
    ELSE IF name = "calculate_mi" THEN Metals
    ELSE Idx

\* the parameters of S that are skipped: no reading in the sample, a reading
\* that is no number, or a limit of zero
Skipped(S) == {i \in S : ~Measured(i) \/ Si(i) = Zero}

\* the readings the conversion skips: None, NaN or no number
SkippedReadings == {k \in DOMAIN raw_row \ ExcludedKeys : ~Coercible(raw_row[k])}

\* C13: every skip (missing reading, zero limit, non-numeric value) is
\* reported: a call logs at least as many diagnostics as it skips parameters
\* or readings, and no skip ends the call by an exception, the invalid unit
\* of the conversion aside.  The code skips a missing reading silently.
C13_EverySkipReported ==
    /\ op \in IndexCalls =>
        /\ ret.kind = "return"
        /\ Len(log) >= Cardinality(Skipped(EligibleFor(op)))
    /\ (op = "convert_row_to_ppb" /\ Multiplier(input_unit) # 0) =>
        /\ ret.kind = "return"
        /\ Len(log) >= Cardinality(SkippedReadings)

----------------------------------------------------------------------------
(* Standards that an index leaves out *)

\* the catalog without its standard number i
RemoveAt(stds, i) == SubSeq(stds, 1, i - 1) \o SubSeq(stds, i + 1, Len(stds))

\* standard i is neither a heavy metal nor a metal
OtherCategory(i) ==
    \/ "category" \notin DOMAIN standards[i]
    \/ standards[i]["category"] \notin {"heavy_metal", "metal"}

\* the outcome of the call is the one the same call gives on the same
\* sample with standard i removed from the catalog: the standard changes no
\* value and raises nothing
SameWithout(i) ==
    /\ op = "calculate_hpi" => ret = calculate_hpi(data_row, RemoveAt(standards, i))
    /\ op = "calculate_hei" => ret = calculate_hei(data_row, RemoveAt(standards, i))
    /\ op = "calculate_mi" => ret = calculate_mi(data_row, RemoveAt(standards, i))
    /\ op = "calculate_cdeg" => ret = calculate_cdeg(data_row, RemoveAt(standards, i))
    /\ op = "calculate_wqi" => ret = calculate_wqi(data_row, RemoveAt(standards, i))

\* C14 as stated: a standard whose category is neither heavy_metal nor
\* metal enters no index and causes no error: each of HPI, HEI, MI, Cdeg and
\* WQI has the value it has with that standard removed from the catalog.
\* calculate_wqi reads no category and counts the standard.
C14_OtherExcludedEverywhere ==
    op \in IndexCalls => \A i \in Idx : OtherCategory(i) => SameWithout(i)

\* C14, amended: a standard whose category is neither heavy_metal nor metal
\* enters none of HPI, HEI, MI and Cdeg and causes no error there: each of
\* the four has the value it has with that standard removed.
C14_OtherExcludedByCategory ==
    op \in IndexCalls \ {"calculate_wqi"} =>
        \A i \in Idx : OtherCategory(i) => SameWithout(i)

\* MI of a metal beside a standard of category other, both read at half
\* their limit of 10: 0.5, the metal's ratio alone
C14_Witness ==
    /\ op = "calculate_mi"
    /\ Len(standards) = 2
    /\ standards[1] = [symbol |-> "Pb", category |-> "other", Si |-> Num(10), Ii |-> Num(0)]
    /\ standards[2] = [symbol |-> "Hg", category |-> "metal", Si |-> Num(10), Ii |-> Num(0)]
    /\ data_row = [k \in {"Pb", "Hg"} |-> Num(5)]
    /\ ret = Return(<<1, 2>>)

\* C15: a standard whose limit Si is not above zero (zero or negative) never
\* contributes and never makes the call raise: each of HPI, HEI, MI, Cdeg
\* and WQI returns the value it returns with that standard removed from the
\* catalog, calculate_hpi on a heavy metal present in the sample included.
\* The loop of calculate_hpi weighs a negative limit like any other.
C15_NonPositiveLimitExcluded ==
    op \in IndexCalls =>
        \A i \in Idx : ~FGt(Si(i), Zero) => (ret.kind = "return" /\ SameWithout(i))

----------------------------------------------------------------------------
(* Samples processed together *)

Results == {"sample", "hpi", "hei", "mi", "cdeg", "wqi", "pig"}

C16_WitnessInterleaved ==
    /\ Len(samples) = 2
    /\ samples[1].pig.kind = "return"
    /\ samples[2].sample.kind = "return"
    /\ samples[2].hpi = NoCall
    /\ samples[1].wqi = NoCall
====
